---- MODULE Spec2Model ----
(***************************************************************************)
(* KeratoScan dashboards: the reviewing-clinician view (DoctorDashboard,   *)
(* src/unnamed/part_000) and the first-time intake view                    *)
(* (TopographerDashboard).  Each React state hook is a variable, each      *)
(* event handler an action; the two network calls (getDocs, fetch          *)
(* /predict) are split at their await into an issuing step and a           *)
(* completion step.                                                        *)
(*                                                                         *)
(* Encodings.  A JavaScript string that the code inspects or builds is a   *)
(* sequence of one-character strings; a nullable value is <<>> (null) or   *)
(* <<v>>; an instant is a number of minutes since the epoch; the date part *)
(* of an ISO string is <<utc day number>>; a blob: URL is its serial       *)
(* number.                                                                 *)
(***************************************************************************)
EXTENDS Integers, Sequences, FiniteSets, TLC

VARIABLES
    mounted,          \* which dashboard component this instance is
    patients,         \* part_000:31
    loading,          \* part_000:32
    searchTerm,       \* part_000:33
    selectedPatient,  \* part_000:34
    filterDate,       \* part_000:35
    currentPage,      \* part_000:36
    selectedFile,     \* part_000:37, TopographerDashboard.tsx:27
    previewUrl,       \* part_000:38, TopographerDashboard.tsx:28
    isUploading,      \* part_000:39, TopographerDashboard.tsx:30
    error,            \* part_000:40, TopographerDashboard.tsx:33
    prediction,       \* part_000:41, TopographerDashboard.tsx:29
    showPatientForm,  \* TopographerDashboard.tsx:31
    patientData,      \* TopographerDashboard.tsx:32
    fetchPending,     \* the getDocs call of fetchPatients is awaiting
    requests,         \* POST /predict calls awaiting their response
    objectUrls,       \* blob URLs created and not revoked
    submitted,        \* records handed over by handlePatientSubmit
    pending,          \* generatePDF calls awaiting the onload of their image
    saved,            \* documents passed to doc.save
    stored            \* documents this page has written to the store

vars == <<mounted, patients, loading, searchTerm, selectedPatient, filterDate,
          currentPage, selectedFile, previewUrl, isUploading, error,
          prediction, showPatientForm, patientData, fetchPending, requests,
          objectUrls, submitted, pending, saved, stored>>

browserVars == <<patients, loading, searchTerm, selectedPatient, filterDate,
                 currentPage, fetchPending>>

formVars == <<showPatientForm, patientData, submitted>>

outputVars == <<pending, saved, stored>>

----------------------------------------------------------------------------
(* Bounds *)

MaxUrls == 2          \* blob URLs one run may create
MaxSubmitted == 1     \* records one run may submit
MaxRecords == 2       \* length of the record lists the filter is tried on
MaxReports == 1       \* generatePDF calls one run may make

----------------------------------------------------------------------------
(* Nullable values and strings *)

Null == <<>>

Some(v) == <<v>>

Val(o) == o[1]

UpperChars == <<"A","B","C","D","E","F","G","H","I","J","K","L","M",
                "N","O","P","Q","R","S","T","U","V","W","X","Y","Z">>

LowerChars == <<"a","b","c","d","e","f","g","h","i","j","k","l","m",
                "n","o","p","q","r","s","t","u","v","w","x","y","z">>

LowerChar(c) ==
    IF \E i \in 1..26 : UpperChars[i] = c
    THEN LowerChars[CHOOSE i \in 1..26 : UpperChars[i] = c]
    ELSE c

\* String.prototype.toLowerCase
toLowerCase(s) == [i \in 1..Len(s) |-> LowerChar(s[i])]

\* String.prototype.includes
includes(s, t) ==
    \E i \in 0..(Len(s) - Len(t)) : SubSeq(s, i + 1, i + Len(t)) = t

\* String.prototype.startsWith
startsWith(s, p) == Len(s) >= Len(p) /\ SubSeq(s, 1, Len(p)) = p

Digits == <<"0","1","2","3","4","5","6","7","8","9">>

RECURSIVE NatToString(_)
\* Number.prototype.toString of a natural number
NatToString(n) ==
    IF n < 10 THEN <<Digits[n + 1]>>
    ELSE NatToString(n \div 10) \o <<Digits[(n % 10) + 1]>>

----------------------------------------------------------------------------
(* The inputs: stored records, typed filter values, chosen files *)

MinutesPerDay == 1440

ColomboOffset == 330    \* Asia/Colombo is UTC+05:30, in minutes

Genders == <<"male", "female", "other">>

FirstNames == << <<"A","l","i","c","e">>, <<"B","o","b">>, <<"C","a","r","l">> >>

LastNames == << <<"S","m","i","t","h">>, <<"J","o","n","e","s">>, <<"K","i","m">> >>

IdNumbers == << <<"K","C","1">>, <<"k","c","2">>, <<"N","7">> >>

\* Instants: day 0 10:00Z, day 0 20:00Z (already day 1 in Colombo), day 1 01:00Z
Instants == <<600, 1200, 1500>>

StoredPrediction ==
    <<"R","e","s","u","l","t",":"," ","N","o","r","m","a","l">>

\* The i-th document of the "patients" collection
Patient(i) ==
    [id        |-> i,
     firstName |-> FirstNames[((i - 1) % 3) + 1],
     lastName  |-> LastNames[((i - 1) % 3) + 1],
     age       |-> 20 + i,
     gender    |-> Genders[((i - 1) % 3) + 1],
     idNumber  |-> IdNumbers[((i - 1) % 3) + 1],
     prediction |-> StoredPrediction,
     report    |-> <<>>,
     dateTime  |-> Instants[((i - 1) % 3) + 1],
     imageUrl  |-> IF i % 2 = 1 THEN <<"h","t","t","p">> ELSE <<>>]

\* the record without the given fields, as a document that lacks them
WithoutFields(patient, fields) ==
    [f \in DOMAIN patient \ fields |-> patient[f]]

\* A document of the collection written without age and gender
PartialPatient == WithoutFields(Patient(2), {"age", "gender"})

\* What reading a property gives when the object lacks it; in a template
\* literal it reads "undefined"
Undefined == <<"undefined">>

\* patient[f] of a document that may lack f
read(patient, f) == IF f \in DOMAIN patient THEN patient[f] ELSE Undefined

\* What the search box may hold: "", "smi", "KC", "J", " "
SearchTerms ==
    { <<>>, <<"s","m","i">>, <<"K","C">>, <<"J">>, <<" ">> }

\* What the date input may hold: "" or the ISO date of a day
FilterDates == { Null, Some(0), Some(1) }

ImagePng == <<"i","m","a","g","e","/","p","n","g">>

ImageJpeg == <<"i","m","a","g","e","/","j","p","e","g">>

TextPlain == <<"t","e","x","t","/","p","l","a","i","n">>

\* The files the user may pick or drop
Files ==
    { [name |-> "scan1.png", type |-> ImagePng],
      [name |-> "scan2.jpg", type |-> ImageJpeg],
      [name |-> "notes.txt", type |-> TextPlain] }

ImagePrefix == <<"i","m","a","g","e","/">>

----------------------------------------------------------------------------
(* Record Browser: the values derived on every render *)

\* new Date(dateTime).toISOString().split('T')[0]
ISODate(dateTime) == Some(dateTime \div MinutesPerDay)

\* the search text is compared as typed
matchesSearchAsTyped(patient, term) ==
    LET searchString == term
    IN  \/ includes(toLowerCase(patient.firstName), searchString)
        \/ includes(toLowerCase(patient.lastName), searchString)
        \/ includes(toLowerCase(patient.idNumber), searchString)

matchesSearch(patient, term) ==
    LET searchString == toLowerCase(term)
    IN  \/ includes(toLowerCase(patient.firstName), searchString)
        \/ includes(toLowerCase(patient.lastName), searchString)
        \/ includes(toLowerCase(patient.idNumber), searchString)

matchesDate(patient, date) ==
    IF date # Null THEN ISODate(patient.dateTime) = date ELSE TRUE

RECURSIVE spliceFrom(_, _, _, _)
\* drops the non-matching records in place, from position i on, and steps
\* over the record that moves into a vacated position
spliceFrom(list, term, date, i) ==
    IF i > Len(list) THEN list
    ELSE IF matchesSearch(list[i], term) /\ matchesDate(list[i], date)
         THEN spliceFrom(list, term, date, i + 1)
         ELSE spliceFrom(SubSeq(list, 1, i - 1) \o SubSeq(list, i + 1, Len(list)),
                         term, date, i + 1)

filterSplicing(list, term, date) == spliceFrom(list, term, date, 1)

filter(list, term, date) ==
    LET keep(patient) == matchesSearch(patient, term) /\ matchesDate(patient, date)
    IN  SelectSeq(list, keep)

filteredPatients == filter(patients, searchTerm, filterDate)

patientsPerPage == 10

\* a count of pages that is never less than one
CeilAtLeastOne(n, d) == IF n = 0 THEN 1 ELSE (n + d - 1) \div d

\* Math.ceil(n / d) for naturals
Ceil(n, d) == (n + d - 1) \div d

totalPages == Ceil(Len(filteredPatients), patientsPerPage)

Min(a, b) == IF a < b THEN a ELSE b

Max(a, b) == IF a < b THEN b ELSE a

\* a slice that takes the element at index end as well
sliceThroughEnd(list, begin, end) ==
    SubSeq(list, Min(begin, Len(list)) + 1, Min(Max(end + 1, 0), Len(list)))

\* Array.prototype.slice(begin, end) for 0 <= begin
slice(list, begin, end) ==
    SubSeq(list, Min(begin, Len(list)) + 1, Min(Max(end, 0), Len(list)))

\* the window of the given 1-indexed page
paginate(list, page) ==
    slice(list, (page - 1) * patientsPerPage, page * patientsPerPage)

paginatedPatients == paginate(filteredPatients, currentPage)

\* new Date(dateString).toLocaleString("en-GB", { timeZone: "Asia/Colombo" }):
\* "dd/mm/yyyy, hh:mm:ss" of the instant on Colombo's clock, kept as the day
\* number and the minute of that day
formatDateTime(dateString) ==
    [date |-> <<(dateString + ColomboOffset) \div MinutesPerDay>>,
     time |-> (dateString + ColomboOffset) % MinutesPerDay]

----------------------------------------------------------------------------
(* Prediction Gateway responses and the outcome string *)

Keratoconus == <<"K","e","r","a","t","o","c","o","n","u","s">>

Normal == <<"N","o","r","m","a","l">>

\* A confidence c in [0,1] is the integer c * ConfidenceScale
ConfidenceScale == 100000

\* The JSON bodies POST /predict may answer with
Responses ==
    { [predicted_class |-> Keratoconus, confidence |-> 99770],
      [predicted_class |-> Keratoconus, confidence |-> 99996],
      [predicted_class |-> Normal,      confidence |-> 8004],
      [predicted_class |-> Normal,      confidence |-> 12346] }

\* cuts the digits after the second decimal off
toFixed2Truncating(confidence) ==
    LET thousandths == (confidence * 100) \div (ConfidenceScale \div 1000)
        n == thousandths \div 10
    IN  NatToString(n \div 100) \o <<".">>
            \o <<Digits[((n \div 10) % 10) + 1], Digits[(n % 10) + 1]>>

\* (confidence * 100).toFixed(2): the hundredths n nearest to confidence * 100,
\* printed as integer part, point, two digits
toFixed2(confidence) ==
    LET thousandths == (confidence * 100) \div (ConfidenceScale \div 1000)
        n == (thousandths + 5) \div 10
    IN  NatToString(n \div 100) \o <<".">>
            \o <<Digits[((n \div 10) % 10) + 1], Digits[(n % 10) + 1]>>

ResultPrefix == <<"R","e","s","u","l","t",":"," ">>

AccuracyPrefix == <<"\n","A","c","c","u","r","a","c","y",":"," ">>

\* `Result: ${data.predicted_class}\nAccuracy: ${accuracyPercentage}%`
predictionText(body) ==
    ResultPrefix \o body.predicted_class \o AccuracyPrefix
        \o toFixed2(body.confidence) \o <<"%">>

SelectImageMsg == "Please select an image file"

DropImageMsg == "Please drop an image file"

NotOkMsg == "Failed to get prediction"

\* the message of the TypeError a failed fetch rejects with
FetchErrorMsg == "Failed to fetch"

\* URL.createObjectURL: a URL no earlier call returned
createObjectURL == Cardinality(objectUrls) + 1

Doctor == "DoctorDashboard"

Topographer == "TopographerDashboard"

\* the upload area and its buttons are part of the rendered page
uploadSectionRendered ==
    \/ mounted = Topographer
    \/ mounted = Doctor /\ selectedPatient # Null

\* {selectedFile && !prediction && (...)}: the Try Again and Process Image buttons
actionButtonsRendered ==
    uploadSectionRendered /\ selectedFile # Null /\ prediction = Null

\* {prediction && (...)}: the result panel with its Try Again button
resultRendered == uploadSectionRendered /\ prediction # Null

----------------------------------------------------------------------------
(* Initial state: the useState initialisers of the mounted component *)

FormFields == {"firstName", "lastName", "age", "gender", "idNumber"}

Init ==
    /\ mounted \in {Doctor, Topographer}
    /\ patients = <<>>
    /\ loading = (mounted = Doctor)
    /\ searchTerm = <<>>
    /\ selectedPatient = Null
    /\ filterDate = Null
    /\ currentPage = 1
    /\ selectedFile = Null
    /\ previewUrl = Null
    /\ isUploading = FALSE
    /\ error = Null
    /\ prediction = Null
    /\ showPatientForm = FALSE
    /\ patientData = [f \in FormFields |-> Null]
    /\ fetchPending = (mounted = Doctor)
    /\ requests = <<>>
    /\ objectUrls = {}
    /\ submitted = <<>>
    /\ pending = <<>>
    /\ saved = <<>>
    /\ stored = <<>>

----------------------------------------------------------------------------
(* DoctorDashboard: Record Browser handlers *)

\* fetchPatients, after the await: the try branch
fetchPatientsOk(patientList) ==
    /\ mounted = Doctor
    /\ fetchPending
    /\ fetchPending' = FALSE
    /\ patients' = patientList
    /\ loading' = FALSE
    /\ UNCHANGED <<mounted, searchTerm, selectedPatient, filterDate, currentPage,
                   selectedFile, previewUrl, isUploading, error, prediction,
                   requests, objectUrls>>
    /\ UNCHANGED formVars
    /\ UNCHANGED outputVars

\* fetchPatients, after the await: the catch branch
fetchPatientsFailed ==
    /\ mounted = Doctor
    /\ fetchPending
    /\ fetchPending' = FALSE
    /\ loading' = FALSE
    /\ UNCHANGED <<mounted, patients, searchTerm, selectedPatient, filterDate,
                   currentPage, selectedFile, previewUrl, isUploading, error,
                   prediction, requests, objectUrls>>
    /\ UNCHANGED formVars
    /\ UNCHANGED outputVars

\* a search box that leaves the current page as it is
searchChangeKeepingPage(value) ==
    /\ mounted = Doctor
    /\ value # searchTerm
    /\ searchTerm' = value
    /\ UNCHANGED currentPage
    /\ UNCHANGED <<mounted, patients, loading, selectedPatient, filterDate,
                   fetchPending, selectedFile, previewUrl, isUploading, error,
                   prediction, requests, objectUrls>>
    /\ UNCHANGED formVars
    /\ UNCHANGED outputVars

\* onChange of the search box
searchChange(value) ==
    /\ mounted = Doctor
    /\ value # searchTerm
    /\ searchTerm' = value
    /\ currentPage' = 1
    /\ UNCHANGED <<mounted, patients, loading, selectedPatient, filterDate,
                   fetchPending, selectedFile, previewUrl, isUploading, error,
                   prediction, requests, objectUrls>>
    /\ UNCHANGED formVars
    /\ UNCHANGED outputVars

\* onChange of the date input
dateChange(value) ==
    /\ mounted = Doctor
    /\ value # filterDate
    /\ filterDate' = value
    /\ currentPage' = 1
    /\ UNCHANGED <<mounted, patients, loading, selectedPatient, searchTerm,
                   fetchPending, selectedFile, previewUrl, isUploading, error,
                   prediction, requests, objectUrls>>
    /\ UNCHANGED formVars
    /\ UNCHANGED outputVars

\* {filteredPatients.length > 0 && (<div className="pagination">...)}
paginationRendered == mounted = Doctor /\ Len(filteredPatients) > 0

\* onClick of the previous-page button
previousPage ==
    /\ paginationRendered
    /\ currentPage # 1
    /\ currentPage' = currentPage - 1
    /\ UNCHANGED <<mounted, patients, loading, selectedPatient, searchTerm,
                   filterDate, fetchPending, selectedFile, previewUrl,
                   isUploading, error, prediction, requests, objectUrls>>
    /\ UNCHANGED formVars
    /\ UNCHANGED outputVars

\* onClick of the next-page button
nextPage ==
    /\ paginationRendered
    /\ currentPage # totalPages
    /\ currentPage' = currentPage + 1
    /\ UNCHANGED <<mounted, patients, loading, selectedPatient, searchTerm,
                   filterDate, fetchPending, selectedFile, previewUrl,
                   isUploading, error, prediction, requests, objectUrls>>
    /\ UNCHANGED formVars
    /\ UNCHANGED outputVars

\* the rows of the table: one View button per record of the current page
rowsRendered ==
    IF mounted = Doctor /\ ~loading /\ Len(filteredPatients) # 0
    THEN paginatedPatients
    ELSE <<>>

\* a View button that also narrows the cache to the record viewed
handleViewDetailsNarrowing(patient) ==
    /\ selectedPatient' = Some(patient)
    /\ patients' = <<patient>>
    /\ selectedFile' = Null
    /\ previewUrl' = Null
    /\ prediction' = Null
    /\ error' = Null
    /\ UNCHANGED <<mounted, loading, searchTerm, filterDate,
                   currentPage, fetchPending, isUploading, requests,
                   objectUrls>>
    /\ UNCHANGED formVars
    /\ UNCHANGED outputVars

handleViewDetails(patient) ==
    /\ selectedPatient' = Some(patient)
    /\ selectedFile' = Null
    /\ previewUrl' = Null
    /\ prediction' = Null
    /\ error' = Null
    /\ UNCHANGED <<mounted, patients, loading, searchTerm, filterDate,
                   currentPage, fetchPending, isUploading, requests,
                   objectUrls>>
    /\ UNCHANGED formVars
    /\ UNCHANGED outputVars

\* onClick of the close button of the details panel
closeDetails ==
    /\ mounted = Doctor
    /\ selectedPatient # Null
    /\ selectedPatient' = Null
    /\ UNCHANGED <<mounted, patients, loading, searchTerm, filterDate,
                   currentPage, fetchPending, selectedFile, previewUrl,
                   isUploading, error, prediction, requests, objectUrls>>
    /\ UNCHANGED formVars
    /\ UNCHANGED outputVars

----------------------------------------------------------------------------
(* DoctorDashboard: Scan Intake Flow handlers (the follow-up flow) *)

\* file is event.target.files?.[0]: Null when the list is empty
handleFileSelect(file) ==
    /\ IF file # Null
       THEN IF startsWith(Val(file).type, ImagePrefix)
            THEN /\ selectedFile' = file
                 /\ previewUrl' = Some(createObjectURL)
                 /\ objectUrls' = objectUrls \cup {createObjectURL}
                 /\ prediction' = Null
                 /\ error' = Null
            ELSE /\ error' = Some(SelectImageMsg)
                 /\ UNCHANGED <<selectedFile, previewUrl, objectUrls, prediction>>
       ELSE UNCHANGED <<selectedFile, previewUrl, objectUrls, prediction, error>>
    /\ UNCHANGED <<isUploading, requests, mounted>>
    /\ UNCHANGED browserVars
    /\ UNCHANGED formVars
    /\ UNCHANGED outputVars

\* a refused drop also discards the file selected before
handleDropDiscarding(file) ==
    /\ IF file # Null /\ startsWith(Val(file).type, ImagePrefix)
       THEN /\ selectedFile' = file
            /\ previewUrl' = Some(createObjectURL)
            /\ objectUrls' = objectUrls \cup {createObjectURL}
            /\ prediction' = Null
            /\ error' = Null
       ELSE /\ error' = Some(DropImageMsg)
            /\ selectedFile' = Null
            /\ previewUrl' = Null
            /\ UNCHANGED <<objectUrls, prediction>>
    /\ UNCHANGED <<isUploading, requests, mounted>>
    /\ UNCHANGED browserVars
    /\ UNCHANGED formVars
    /\ UNCHANGED outputVars

\* file is event.dataTransfer.files[0]: Null when nothing that is a file was dropped
handleDrop(file) ==
    /\ IF file # Null /\ startsWith(Val(file).type, ImagePrefix)
       THEN /\ selectedFile' = file
            /\ previewUrl' = Some(createObjectURL)
            /\ objectUrls' = objectUrls \cup {createObjectURL}
            /\ prediction' = Null
            /\ error' = Null
       ELSE /\ error' = Some(DropImageMsg)
            /\ UNCHANGED <<selectedFile, previewUrl, objectUrls, prediction>>
    /\ UNCHANGED <<isUploading, requests, mounted>>
    /\ UNCHANGED browserVars
    /\ UNCHANGED formVars
    /\ UNCHANGED outputVars

\* handleUpload up to its await: the guard, the two setters and the fetch
handleUpload ==
    /\ IF selectedFile = Null
       THEN UNCHANGED <<isUploading, error, requests>>
       ELSE /\ isUploading' = TRUE
            /\ error' = Null
            /\ requests' = Append(requests, [image |-> Val(selectedFile)])
    /\ UNCHANGED <<selectedFile, previewUrl, prediction, objectUrls, mounted>>
    /\ UNCHANGED browserVars
    /\ UNCHANGED formVars
    /\ UNCHANGED outputVars

\* onClick={handleUpload}: the button works while a call is pending
processImageWhilePending ==
    IF actionButtonsRendered
    THEN handleUpload
    ELSE UNCHANGED <<mounted, patients, loading, searchTerm, selectedPatient,
                     filterDate, currentPage, selectedFile, previewUrl,
                     isUploading, error, prediction, showPatientForm,
                     patientData, fetchPending, requests, objectUrls, submitted,
                     pending, saved, stored>>

\* onClick={isUploading ? undefined : handleUpload} of the Process Image
\* button; off the rendered button there is nothing to click
processImage ==
    IF actionButtonsRendered /\ ~isUploading
    THEN handleUpload
    ELSE UNCHANGED <<mounted, patients, loading, searchTerm, selectedPatient,
                     filterDate, currentPage, selectedFile, previewUrl,
                     isUploading, error, prediction, showPatientForm,
                     patientData, fetchPending, requests, objectUrls, submitted,
                     pending, saved, stored>>

\* requests without its i-th element
Remove(s, i) == SubSeq(s, 1, i - 1) \o SubSeq(s, i + 1, Len(s))

\* handleUpload after its await, response.ok: the body is parsed and shown
uploadResolved(i, body) ==
    /\ i \in 1..Len(requests)
    /\ requests' = Remove(requests, i)
    /\ prediction' = Some(predictionText(body))
    /\ isUploading' = FALSE
    /\ UNCHANGED <<selectedFile, previewUrl, error, objectUrls, mounted>>
    /\ UNCHANGED browserVars
    /\ UNCHANGED formVars
    /\ UNCHANGED outputVars

\* a catch branch with no finally after it: the flag is left set
uploadRejectedStaying(i, message) ==
    /\ i \in 1..Len(requests)
    /\ requests' = Remove(requests, i)
    /\ error' = Some(message)
    /\ prediction' = Null
    /\ UNCHANGED isUploading
    /\ UNCHANGED <<selectedFile, previewUrl, objectUrls, mounted>>
    /\ UNCHANGED browserVars
    /\ UNCHANGED formVars
    /\ UNCHANGED outputVars

\* handleUpload after its await, the catch branch: fetch rejected
\* (FetchErrorMsg) or the status was not ok (NotOkMsg)
uploadRejected(i, message) ==
    /\ i \in 1..Len(requests)
    /\ requests' = Remove(requests, i)
    /\ error' = Some(message)
    /\ prediction' = Null
    /\ isUploading' = FALSE
    /\ UNCHANGED <<selectedFile, previewUrl, objectUrls, mounted>>
    /\ UNCHANGED browserVars
    /\ UNCHANGED formVars
    /\ UNCHANGED outputVars

\* Try Again also ends the Processing state, the call still pending
handleTryAgainStopping ==
    /\ selectedFile' = Null
    /\ previewUrl' = Null
    /\ prediction' = Null
    /\ error' = Null
    /\ isUploading' = FALSE
    /\ UNCHANGED <<requests, objectUrls, mounted>>
    /\ UNCHANGED browserVars
    /\ UNCHANGED formVars
    /\ UNCHANGED outputVars

handleTryAgain ==
    /\ selectedFile' = Null
    /\ previewUrl' = Null
    /\ prediction' = Null
    /\ error' = Null
    /\ UNCHANGED <<isUploading, requests, objectUrls, mounted>>
    /\ UNCHANGED browserVars
    /\ UNCHANGED formVars
    /\ UNCHANGED outputVars

----------------------------------------------------------------------------
(* TopographerDashboard: Scan Intake Flow handlers (first-time intake) *)

handleFileSelectT(file) ==
    /\ IF file # Null
       THEN IF startsWith(Val(file).type, ImagePrefix)
            THEN /\ selectedFile' = file
                 /\ previewUrl' = Some(createObjectURL)
                 /\ objectUrls' = objectUrls \cup {createObjectURL}
                 /\ prediction' = Null
                 /\ showPatientForm' = FALSE
                 /\ error' = Null
            ELSE /\ error' = Some(SelectImageMsg)
                 /\ UNCHANGED <<selectedFile, previewUrl, objectUrls, prediction,
                                showPatientForm>>
       ELSE UNCHANGED <<selectedFile, previewUrl, objectUrls, prediction,
                        showPatientForm, error>>
    /\ UNCHANGED <<isUploading, requests, mounted, patientData, submitted>>
    /\ UNCHANGED browserVars
    /\ UNCHANGED outputVars

handleDropT(file) ==
    /\ IF file # Null /\ startsWith(Val(file).type, ImagePrefix)
       THEN /\ selectedFile' = file
            /\ previewUrl' = Some(createObjectURL)
            /\ objectUrls' = objectUrls \cup {createObjectURL}
            /\ prediction' = Null
            /\ showPatientForm' = FALSE
            /\ error' = Null
       ELSE /\ error' = Some(DropImageMsg)
            /\ UNCHANGED <<selectedFile, previewUrl, objectUrls, prediction,
                           showPatientForm>>
    /\ UNCHANGED <<isUploading, requests, mounted, patientData, submitted>>
    /\ UNCHANGED browserVars
    /\ UNCHANGED outputVars

SimulatedText ==
    ResultPrefix \o Keratoconus \o AccuracyPrefix \o <<"9","9",".","7","7">> \o <<"%">>

simulatePrediction ==
    /\ IF selectedFile # Null /\ prediction = Null
       THEN /\ prediction' = Some(SimulatedText)
            /\ showPatientForm' = TRUE
       ELSE UNCHANGED <<prediction, showPatientForm>>
    /\ UNCHANGED <<selectedFile, previewUrl, isUploading, error, requests,
                   objectUrls, mounted, patientData, submitted>>
    /\ UNCHANGED browserVars
    /\ UNCHANGED outputVars

\* onClick={isUploading ? undefined : simulatePrediction} of the Process
\* Image button
processImageT ==
    IF actionButtonsRendered /\ ~isUploading
    THEN simulatePrediction
    ELSE UNCHANGED <<mounted, patients, loading, searchTerm, selectedPatient,
                     filterDate, currentPage, selectedFile, previewUrl,
                     isUploading, error, prediction, showPatientForm,
                     patientData, fetchPending, requests, objectUrls, submitted,
                     pending, saved, stored>>

handleTryAgainT ==
    /\ selectedFile' = Null
    /\ previewUrl' = Null
    /\ prediction' = Null
    /\ showPatientForm' = FALSE
    /\ patientData' = [f \in FormFields |-> Null]
    /\ error' = Null
    /\ UNCHANGED <<isUploading, requests, objectUrls, mounted>>
    /\ UNCHANGED browserVars
    /\ UNCHANGED outputVars


SampleFirstName == <<"A","n","n">>

SampleLastName == <<"L","e","e">>

SampleIdNumber == <<"K","C","9">>

\* What the user may leave in a form control.  A text value is a string;
\* the age is parseInt(e.target.value): <<n>>, or <<>> for NaN
FormInputs(f) ==
    CASE f = "firstName" -> {SampleFirstName, <<>>}
      [] f = "lastName"  -> {SampleLastName}
      [] f = "age"       -> {<<34>>, <<>>}
      [] f = "gender"    -> {<<"m","a","l","e">>}
      [] f = "idNumber"  -> {SampleIdNumber}

\* onChange of a form control: setPatientData({ ...patientData, [f]: value })
formChange(f, value) ==
    /\ mounted = Topographer
    /\ showPatientForm
    /\ patientData[f] # Some(value)
    /\ patientData' = [patientData EXCEPT ![f] = Some(value)]
    /\ UNCHANGED <<selectedFile, previewUrl, isUploading, error, prediction,
                   showPatientForm, requests, objectUrls, mounted,
                   submitted>>
    /\ UNCHANGED browserVars
    /\ UNCHANGED outputVars

\* value={patientData.f || ''} of a required control is not the empty string
controlFilled(f) ==
    /\ patientData[f] # Null
    /\ Val(patientData[f]) # <<>>
    /\ f = "age" => Val(patientData[f]) # <<0>>

\* the browser submits the form only when every required control is filled
formValid == \A f \in FormFields : controlFilled(f)

\* The instants new Date() may give
Clock == {600, 1500}

\* handlePatientSubmit, with the handleTryAgain() call that ends it
handlePatientSubmit(now) ==
    /\ submitted' = Append(submitted,
            [patientData |-> patientData,
             prediction  |-> IF prediction # Null THEN Val(prediction) ELSE <<>>,
             report      |-> <<>>,
             dateTime    |-> now])
    /\ handleTryAgainT

----------------------------------------------------------------------------
(* DoctorDashboard: generatePDF.  The document is the sequence of the     *)
(* drawing calls made on it, each with the page it lands on, its vertical *)
(* position and height in millimetres and the section it belongs to.      *)

\* new jsPDF(): one A4 portrait page, in millimetres
pageWidth == 210

pageHeight == 297

margin == 20

lineHeight == 7

NotAvailable == <<"N","/","A">>

WhiteSpace == {" ", "\n", "\t"}

RECURSIVE trimStart(_)
trimStart(s) ==
    IF s # <<>> /\ Head(s) \in WhiteSpace THEN trimStart(Tail(s)) ELSE s

RECURSIVE trimEnd(_)
trimEnd(s) ==
    IF s # <<>> /\ s[Len(s)] \in WhiteSpace
    THEN trimEnd(SubSeq(s, 1, Len(s) - 1))
    ELSE s

\* String.prototype.trim
trim(s) == trimEnd(trimStart(s))

RECURSIVE splitInto(_, _, _)
\* the pieces of s between separators, the piece being read given as line
splitInto(s, separator, line) ==
    IF s = <<>> THEN <<line>>
    ELSE IF Head(s) = separator
         THEN <<line>> \o splitInto(Tail(s), separator, <<>>)
         ELSE splitInto(Tail(s), separator, Append(line, Head(s)))

\* String.prototype.split(separator) for a one-character separator
split(s, separator) == splitInto(s, separator, <<>>)

\* the document and the cursor of a generatePDF call
newDocument == [pages |-> 1, calls |-> <<>>, yPos |-> 20]

\* one drawing call on the current page
draw(run, call, section, y, h, text) ==
    [run EXCEPT !.calls =
        Append(@, [call |-> call, section |-> section, page |-> run.pages,
                   y |-> y, h |-> h, text |-> text])]

moveTo(run, y) == [run EXCEPT !.yPos = y]

moveBy(run, d) == [run EXCEPT !.yPos = @ + d]

\* doc.text(text, x, yPos)
textAtCursor(run, section, text) == draw(run, "text", section, run.yPos, 0, text)

\* doc.rect(margin, yPos, pageWidth - margin * 2, h, 'F')
rectAtCursor(run, section, h) == draw(run, "rect", section, run.yPos, h, <<>>)

\* the blue band and its two texts; the time of generation is left out
pageHeader(run) ==
    LET band  == draw(run, "rect", "header", 0, 15, <<>>)
        title == draw(band, "text", "header", 10, 0,
                      <<"KeratoScan AI - Medical Report">>)
    IN  draw(title, "text", "header", 10, 0, <<"Generated: ">>)

addNewPage(run) ==
    pageHeader([run EXCEPT !.pages = @ + 1, !.yPos = 20])

checkAndAddNewPage(run, requiredSpace) ==
    IF run.yPos + requiredSpace > pageHeight - margin
    THEN addNewPage(run)
    ELSE run

\* the title and the decorative line
reportTitle(run) ==
    LET titled == textAtCursor(moveTo(run, 40), "title",
                               <<"Patient Medical Report">>)
        below  == moveBy(titled, 5)
    IN  draw(below, "line", "title", below.yPos, 0, <<>>)

patientInformation(run, patient) ==
    LET box     == rectAtCursor(moveBy(run, 15), "patientInformation", 40)
        heading == textAtCursor(moveBy(box, 10), "patientInformation",
                                <<"Patient Information">>)
        row1    == moveBy(heading, 10)
        name    == textAtCursor(row1, "patientInformation",
                       <<"Name: ", patient.firstName, " ", patient.lastName>>)
        number  == textAtCursor(name, "patientInformation",
                       <<"ID Number: ", patient.idNumber>>)
        row2    == moveBy(number, lineHeight)
        age     == textAtCursor(row2, "patientInformation",
                       <<"Age: ", read(patient, "age")>>)
        gender  == textAtCursor(age, "patientInformation",
                       <<"Gender: ", read(patient, "gender")>>)
        row3    == moveBy(gender, lineHeight)
    IN  textAtCursor(row3, "patientInformation",
                     <<"Date: ", formatDateTime(patient.dateTime)>>)

RECURSIVE printLines(_, _, _, _)
\* lines.forEach(line => { doc.text(line, margin + 5, yPos); yPos += step })
printLines(run, section, lines, step) ==
    IF lines = <<>> THEN run
    ELSE printLines(moveBy(textAtCursor(run, section, <<Head(lines)>>), step),
                    section, Tail(lines), step)

NotBlank(line) == trim(line) # <<>>

aiAnalysisResults(run, localPrediction) ==
    LET placed  == checkAndAddNewPage(moveBy(run, 20), 60)
        box     == rectAtCursor(placed, "aiAnalysisResults", 40)
        heading == textAtCursor(moveBy(box, 10), "aiAnalysisResults",
                                <<"AI Analysis Results">>)
        predictionLines == SelectSeq(split(localPrediction, "\n"), NotBlank)
    IN  printLines(moveBy(heading, 10), "aiAnalysisResults", predictionLines, 7)

medicalReport(run, patient) ==
    LET placed  == checkAndAddNewPage(moveBy(run, 10), 60)
        box     == rectAtCursor(placed, "medicalReport", 40)
        heading == textAtCursor(moveBy(box, 10), "medicalReport",
                                <<"Medical Report">>)
    IN  textAtCursor(moveBy(heading, 10), "medicalReport", <<patient.report>>)

\* What an image that loads may measure, in pixels: one wider than tall and
\* one twice as tall as wide
ImageSizes == {[width |-> 300, height |-> 200], [width |-> 100, height |-> 200]}

newAnalysisResults(run, imgHeight, localPrediction) ==
    LET placed  == checkAndAddNewPage(moveBy(run, imgHeight + 20), 60)
        box     == rectAtCursor(placed, "newAnalysisResults", 40)
        heading == textAtCursor(moveBy(box, 10), "newAnalysisResults",
                                <<"New Analysis Results">>)
        newPredictionLines == split(localPrediction, "\n")
    IN  printLines(moveBy(heading, 10), "newAnalysisResults",
                   newPredictionLines, lineHeight)

\* the try block after the await: the image and, under it, the block
\* guarded by the local constant prediction of generatePDF
imageSection(run, img, localPrediction) ==
    LET placed    == checkAndAddNewPage(moveBy(run, 20), 100)
        box       == rectAtCursor(placed, "image", 120)
        heading   == textAtCursor(moveBy(box, 10), "image",
                                  <<"Corneal Topography Image">>)
        imgWidth  == 150
        imgHeight == (img.height * imgWidth) \div img.width
        atImage   == moveBy(heading, 10)
        image     == draw(atImage, "addImage", "image", atImage.yPos,
                          imgHeight, <<>>)
    IN  IF localPrediction # <<>>
        THEN newAnalysisResults(image, imgHeight, localPrediction)
        ELSE image

RECURSIVE footersFrom(_, _, _)
\* for (let i = from; i <= totalPages; i++): the two footer texts of page i
footersFrom(calls, i, pageCount) ==
    IF i > pageCount THEN calls
    ELSE footersFrom(
            calls \o
            << [call |-> "text", section |-> "footer", page |-> i,
                y |-> pageHeight - 10, h |-> 0,
                text |-> <<"Page ", i, " of ", pageCount>>],
               [call |-> "text", section |-> "footer", page |-> i,
                y |-> pageHeight - 10, h |-> 0,
                text |-> <<"KeratoScan AI - Confidential Medical Report">>] >>,
            i + 1, pageCount)

\* the footer loop and doc.save(`medical_report_${idNumber}.pdf`)
savedDocument(run, patient) ==
    [fileName |-> IF patient.idNumber # <<>> THEN patient.idNumber
                  ELSE NotAvailable,
     pages    |-> run.pages,
     calls    |-> footersFrom(run.calls, 1, run.pages)]

\* const prediction = patient.prediction ? patient.prediction.trim() : "N/A"
predictionOf(patient) ==
    IF patient.prediction # <<>> THEN trim(patient.prediction)
    ELSE NotAvailable

\* generatePDF up to the image: header, title and the three sections
beforeImage(patient) ==
    medicalReport(
        aiAnalysisResults(
            patientInformation(reportTitle(pageHeader(newDocument)), patient),
            predictionOf(patient)),
        patient)

\* onClick of Download Report: generatePDF(patient) runs to its end when the
\* record has no image, and to the await of the image's onload otherwise
generatePDF(patient) ==
    /\ IF patient.imageUrl # <<>> /\ trim(patient.imageUrl) # <<>>
       THEN /\ pending' = Append(pending,
                    [patient |-> patient, run |-> beforeImage(patient),
                     img |-> "loading"])
            /\ UNCHANGED saved
       ELSE /\ saved' = Append(saved,
                    savedDocument(beforeImage(patient), patient))
            /\ UNCHANGED pending
    /\ UNCHANGED <<mounted, selectedFile, previewUrl, isUploading, error,
                   prediction, requests, objectUrls, stored>>
    /\ UNCHANGED browserVars
    /\ UNCHANGED formVars

\* img.onload fires: the promise resolves and the i-th waiting call runs to
\* its end
imageLoaded(i, img) ==
    /\ pending[i].img = "loading"
    /\ saved' = Append(saved,
            savedDocument(imageSection(pending[i].run, img,
                                       predictionOf(pending[i].patient)),
                          pending[i].patient))
    /\ pending' = Remove(pending, i)
    /\ UNCHANGED <<mounted, selectedFile, previewUrl, isUploading, error,
                   prediction, requests, objectUrls, stored>>
    /\ UNCHANGED browserVars
    /\ UNCHANGED formVars

\* the image of the i-th waiting call fails to load: the browser fires the
\* error event, for which the code has set no handler, and the promise,
\* which only onload resolves, stays unsettled
imageError(i) ==
    /\ pending[i].img = "loading"
    /\ pending' = [pending EXCEPT ![i].img = "broken"]
    /\ UNCHANGED <<mounted, selectedFile, previewUrl, isUploading, error,
                   prediction, requests, objectUrls, saved, stored>>
    /\ UNCHANGED browserVars
    /\ UNCHANGED formVars

----------------------------------------------------------------------------
(* The user and the network: every event the rendered page can deliver *)

\* the first n documents of the "patients" collection
Store(n) == [i \in 1..n |-> Patient(i)]

\* the lists of at most n records over the given records
RECURSIVE ListsUpTo(_, _)
ListsUpTo(records, n) ==
    IF n = 0 THEN {<<>>}
    ELSE LET shorter == ListsUpTo(records, n - 1)
         IN  shorter \cup {Append(l, r) : l \in shorter, r \in records}

\* What getDocs may return while the whole page is in use: at most one page
\* of records, so that both page buttons stay disabled
SmallStores == {Store(0), Store(3)}

\* What getDocs may return while only the record browser is in use: every
\* short list, a store of one page and one record, and one of two full pages
BrowsedStores ==
    ListsUpTo({Patient(1), Patient(2), Patient(3)}, MaxRecords)
        \cup {Store(patientsPerPage + 1), Store(2 * patientsPerPage)}

FileInputs == {Null} \cup {Some(f) : f \in Files}

\* a file that passes the image test needs a blob URL of the run's budget
WithinUrlBudget(file) ==
    (file # Null /\ startsWith(Val(file).type, ImagePrefix))
        => Cardinality(objectUrls) < MaxUrls

\* the record browser without its page buttons
BrowseNext(stores) ==
    \/ \E patientList \in stores : fetchPatientsOk(patientList)
    \/ fetchPatientsFailed
    \/ \E value \in SearchTerms : searchChange(value)
    \/ \E value \in FilterDates : dateChange(value)
    \/ \E i \in 1..Len(rowsRendered) : handleViewDetails(rowsRendered[i])
    \/ closeDetails

PageNext == previousPage \/ nextPage

DoctorFlowNext ==
    \/ /\ mounted = Doctor /\ uploadSectionRendered
       /\ \E file \in FileInputs : WithinUrlBudget(file) /\ handleFileSelect(file)
    \/ /\ mounted = Doctor /\ uploadSectionRendered
       /\ \E file \in FileInputs : WithinUrlBudget(file) /\ handleDrop(file)
    \/ /\ mounted = Doctor /\ uploadSectionRendered
       /\ processImage
    \/ /\ mounted = Doctor /\ (actionButtonsRendered \/ resultRendered)
       /\ handleTryAgain
    \/ /\ mounted = Doctor
       /\ \E i \in 1..Len(requests), body \in Responses : uploadResolved(i, body)
    \/ /\ mounted = Doctor
       /\ \E i \in 1..Len(requests), message \in {NotOkMsg, FetchErrorMsg} :
            uploadRejected(i, message)

TopographerNext ==
    \/ /\ mounted = Topographer
       /\ \E file \in FileInputs : WithinUrlBudget(file) /\ handleFileSelectT(file)
    \/ /\ mounted = Topographer
       /\ \E file \in FileInputs : WithinUrlBudget(file) /\ handleDropT(file)
    \/ /\ mounted = Topographer
       /\ processImageT
    \/ /\ mounted = Topographer /\ (actionButtonsRendered \/ resultRendered)
       /\ handleTryAgainT
       /\ UNCHANGED submitted
    \/ /\ \E f \in FormFields : \E value \in FormInputs(f) : formChange(f, value)
    \/ /\ mounted = Topographer /\ showPatientForm /\ formValid
       /\ Len(submitted) < MaxSubmitted
       /\ \E now \in Clock : handlePatientSubmit(now)

\* The whole page of either dashboard, over stores of at most one page
Next == BrowseNext(SmallStores) \/ DoctorFlowNext \/ TopographerNext

Spec == Init /\ [][Next]_vars

\* a pending call to the Prediction Gateway is answered or fails
settled ==
    \/ \E i \in 1..Len(requests), body \in Responses : uploadResolved(i, body)
    \/ \E i \in 1..Len(requests), message \in {NotOkMsg, FetchErrorMsg} :
          uploadRejected(i, message)

\* Spec with a Prediction Gateway that does not leave a call pending for
\* ever: the await of fetch in handleUpload is resumed
SpecFair == Spec /\ WF_vars(settled)

\* The record browser of the DoctorDashboard alone, the upload area unused
BrowserNext == BrowseNext(BrowsedStores) \/ PageNext

InitBrowser == Init /\ mounted = Doctor

SpecBrowser == InitBrowser /\ [][BrowserNext]_vars

\* the Download Report button of the details panel, and the images that
\* the waiting generatePDF calls have asked for
ReportNext ==
    \/ /\ mounted = Doctor /\ selectedPatient # Null
       /\ Len(pending) + Len(saved) < MaxReports
       /\ generatePDF(Val(selectedPatient))
    \/ \E i \in 1..Len(pending), img \in ImageSizes : imageLoaded(i, img)
    \/ \E i \in 1..Len(pending) : imageError(i)

\* the record list with its filters left as they are
SelectNext(stores) ==
    \/ \E patientList \in stores : fetchPatientsOk(patientList)
    \/ fetchPatientsFailed
    \/ \E i \in 1..Len(rowsRendered) : handleViewDetails(rowsRendered[i])
    \/ closeDetails

\* What getDocs may return while reports are made: the small stores and a
\* store holding a document that lacks fields
ReportedStores == SmallStores \cup {<<Patient(1), PartialPatient>>}

\* The details panel of the DoctorDashboard: selecting a record, the
\* follow-up upload and the report, over stores of at most one page
ReportingNext == SelectNext(ReportedStores) \/ DoctorFlowNext \/ ReportNext

SpecReport == InitBrowser /\ [][ReportingNext]_vars

\* the search box and the date input
FilterNext ==
    \/ \E value \in SearchTerms : searchChange(value)
    \/ \E value \in FilterDates : dateChange(value)

\* the record browser shows the first page of the unfiltered cache
filtersAtRest == searchTerm = <<>> /\ filterDate = Null /\ currentPage = 1

\* no file has been offered to the upload area since the page was mounted
uploadAtRest == objectUrls = {} /\ error = Null

\* no report has been asked for since the page was mounted
reportAtRest == pending = <<>> /\ saved = <<>>

VisitStores == SmallStores \cup {Store(patientsPerPage + 1)}

\* Every event of either dashboard, over stores of up to two pages.  To keep
\* the reachable states few, a visit to the DoctorDashboard uses one area
\* only: it filters and pages, or uploads a follow-up scan, or downloads
\* reports, while the other two areas are as they were when mounted
VisitNext ==
    \/ SelectNext(VisitStores)
    \/ uploadAtRest /\ reportAtRest /\ FilterNext
    \/ uploadAtRest /\ reportAtRest /\ PageNext
    \/ filtersAtRest /\ reportAtRest /\ DoctorFlowNext
    \/ filtersAtRest /\ uploadAtRest /\ ReportNext
    \/ TopographerNext

SpecVisit == Init /\ [][VisitNext]_vars

----------------------------------------------------------------------------
(* Scan Intake Flow: the states of section 4.2 read off the hooks *)

Idle == selectedFile = Null /\ ~isUploading /\ prediction = Null

FileSelected == selectedFile # Null /\ ~isUploading /\ prediction = Null

Classifying == isUploading

Resulted == prediction # Null /\ ~isUploading

\* a step of the Try Again button, in either dashboard
TryAgainStep ==
    \/ mounted = Doctor /\ handleTryAgain
    \/ mounted = Topographer /\ handleTryAgainT

\* a step of the Process Image action, in either dashboard
ProcessImageStep ==
    \/ mounted = Doctor /\ processImage
    \/ mounted = Topographer /\ processImageT

\* a step in which file arrives through the file input or by drag and drop
SelectFileStep(file) ==
    \/ mounted = Doctor /\ (handleFileSelect(file) \/ handleDrop(file))
    \/ mounted = Topographer /\ (handleFileSelectT(file) \/ handleDropT(file))

\* a step in which a classification call completes successfully
ResolvedStep == \E i \in 1..Len(requests), body \in Responses : uploadResolved(i, body)

\* a step in which a classification call fails
RejectedStep ==
    \E i \in 1..Len(requests), message \in {NotOkMsg, FetchErrorMsg} :
        uploadRejected(i, message)

(* C1: reset() from any flow state (Idle, FileSelected, Classifying,       *)
(* Resulted), in either dashboard, leaves no selected file, no preview     *)
(* locator, no outcome, no error, and a flow that is not Classifying.      *)
C1_ResetYieldsIdle ==
    [][TryAgainStep =>
        /\ selectedFile' = Null
        /\ previewUrl' = Null
        /\ prediction' = Null
        /\ error' = Null
        /\ ~isUploading']_vars

(* C2: the Process Image action invoked with no selected file or while a   *)
(* classification is pending changes no state and issues no call.          *)
C2_ClassifyOnlyFromFileSelected ==
    [][((selectedFile = Null \/ isUploading) /\ ProcessImageStep)
            => UNCHANGED vars]_vars

\* the Process Image button is on the page while a call is pending
C2_Witness ==
    /\ mounted = Doctor
    /\ actionButtonsRendered
    /\ isUploading
    /\ Len(requests) = 1

(* C3: at most one classification call is in flight at any time.           *)
C3_AtMostOneInFlight == Len(requests) <= 1

\* a call is pending for a file that has been replaced meanwhile
C3_Witness ==
    /\ Len(requests) = 1
    /\ selectedFile # Null
    /\ requests[1].image # Val(selectedFile)

(* C4: in both dashboards the Process Image action taken in FileSelected   *)
(* moves to Classifying and issues exactly one call carrying the selected  *)
(* image, and an outcome appears only when such a call completes           *)
(* successfully.                                                           *)
C4_ClassifyIssuesOneCall ==
    [][/\ (actionButtonsRendered /\ FileSelected /\ ProcessImageStep) =>
            /\ isUploading'
            /\ requests' = Append(requests, [image |-> Val(selectedFile)])
       /\ (prediction = Null /\ prediction' # Null) => ResolvedStep]_vars

(* C5: a failed classification call takes the flow from Classifying back   *)
(* to FileSelected: the selected file and preview are kept and present,    *)
(* an error message is recorded, there is no outcome, and no new call is   *)
(* issued.                                                                 *)
C5_FailureBackToFileSelected ==
    [][RejectedStep =>
        /\ selectedFile' = selectedFile
        /\ previewUrl' = previewUrl
        /\ selectedFile' # Null
        /\ previewUrl' # Null
        /\ error' # Null
        /\ prediction' = Null
        /\ ~isUploading'
        /\ Len(requests') = Len(requests) - 1]_vars


\* the value of a digit character, 10 for any other character
DigitValue(ch) ==
    IF \E d \in 1..10 : Digits[d] = ch
    THEN (CHOOSE d \in 1..10 : Digits[d] = ch) - 1
    ELSE 10

IsDigits(s) == Len(s) > 0 /\ \A k \in 1..Len(s) : DigitValue(s[k]) < 10

RECURSIVE DecimalValue(_)
\* the natural number a string of digits denotes
DecimalValue(s) ==
    IF Len(s) = 0 THEN 0
    ELSE 10 * DecimalValue(SubSeq(s, 1, Len(s) - 1)) + DigitValue(s[Len(s)])

\* text reads "Result: <label>\nAccuracy: <p>%", where p is a decimal numeral
\* with exactly two decimals and no needless leading zero, and no two-decimal
\* number is nearer than p to confidence * 100
IsOutcomeOf(text, body) ==
    LET head == ResultPrefix \o body.predicted_class \o AccuracyPrefix
        p == SubSeq(text, Len(head) + 1, Len(text) - 1)
        whole == SubSeq(p, 1, Len(p) - 3)
        decimals == SubSeq(p, Len(p) - 1, Len(p))
        hundredths == 100 * DecimalValue(whole) + DecimalValue(decimals)
        \* confidence * 100 in units of 1 / ConfidenceScale
        exact == body.confidence * 100
        unit == ConfidenceScale \div 100
        distance == IF hundredths * unit >= exact
                    THEN hundredths * unit - exact
                    ELSE exact - hundredths * unit
    IN  /\ Len(text) >= Len(head) + 5
        /\ SubSeq(text, 1, Len(head)) = head
        /\ text[Len(text)] = "%"
        /\ p[Len(p) - 2] = "."
        /\ IsDigits(whole)
        /\ IsDigits(decimals)
        /\ Len(whole) > 1 => whole[1] # "0"
        /\ 2 * distance <= unit

(* C6: a successful classification with label L and confidence c puts the  *)
(* flow in Resulted with the outcome "Result: L\nAccuracy: p%", p being     *)
(* c*100 rounded to exactly two decimals.                                  *)
C6_OutcomeFormatted ==
    [][\A i \in 1..Len(requests), body \in Responses :
            uploadResolved(i, body) =>
                /\ Resulted'
                /\ IsOutcomeOf(Val(prediction'), body)]_vars

\* "Result: Keratoconus\nAccuracy: 99.77%" is shown after a real call
C6_Witness ==
    /\ mounted = Doctor
    /\ Resulted
    /\ prediction = Some(<<"R","e","s","u","l","t",":"," ",
                           "K","e","r","a","t","o","c","o","n","u","s","\n",
                           "A","c","c","u","r","a","c","y",":"," ",
                           "9","9",".","7","7","%">>)

NonImages == {f \in Files : ~startsWith(f.type, ImagePrefix)}

(* C7: selecting a file that is not an image, through the file input or by *)
(* drag and drop, sets an error message and changes nothing else; no       *)
(* preview locator is created.                                             *)
C7_NonImageOnlySetsError ==
    [][\A f \in NonImages :
            SelectFileStep(Some(f)) =>
                /\ error' # Null
                /\ UNCHANGED <<mounted, patients, loading, searchTerm,
                               selectedPatient, filterDate, currentPage,
                               selectedFile, previewUrl, isUploading,
                               prediction, showPatientForm, patientData,
                               fetchPending, requests, objectUrls,
                               submitted>>]_vars

\* a file is selected and the error of a refused file is shown beside it
C7_Witness ==
    /\ selectedFile # Null
    /\ previewUrl # Null
    /\ error \in {Some(SelectImageMsg), Some(DropImageMsg)}

(* C8: the only unreleased preview locator is the one the flow currently   *)
(* holds, and after reset there is none.                                   *)
C8_PreviewLocatorsReleased ==
    objectUrls \subseteq (IF previewUrl = Null THEN {} ELSE {Val(previewUrl)})

----------------------------------------------------------------------------
(* Record Browser: filter *)

\* text, letter case apart, occurs in field: after some a characters of
\* field come the characters of text
OccursIgnoringCase(text, field) ==
    \E a \in 0..Len(field) :
        /\ a + Len(text) <= Len(field)
        /\ \A k \in 1..Len(text) : LowerChar(field[a + k]) = LowerChar(text[k])

\* the text is, lower-cased, a substring of one of the three lower-cased fields
SatisfiesText(record, text) ==
    \/ OccursIgnoringCase(text, record.firstName)
    \/ OccursIgnoringCase(text, record.lastName)
    \/ OccursIgnoringCase(text, record.idNumber)

\* the creation day (of the ISO timestamp) equals the supplied day
SatisfiesDate(record, day) == record.dateTime \div MinutesPerDay = day

Satisfies(record, text, date) ==
    /\ text # <<>> => SatisfiesText(record, text)
    /\ date # Null => SatisfiesDate(record, Val(date))

\* the positions of list, in increasing order, whose record satisfies both
RECURSIVE MatchingPositions(_, _, _, _)
MatchingPositions(list, text, date, from) ==
    IF from > Len(list) THEN <<>>
    ELSE (IF Satisfies(list[from], text, date) THEN <<from>> ELSE <<>>)
            \o MatchingPositions(list, text, date, from + 1)

(* C9: filter returns exactly the cached records that satisfy the text     *)
(* predicate (lower-cased text a substring of the lower-cased given name,  *)
(* family name or clinic identifier) and the date predicate (creation day  *)
(* equals the supplied day), an absent predicate being true, in source     *)
(* order and without repeating a position.                                 *)
C9_FilterExact ==
    LET at == MatchingPositions(patients, searchTerm, filterDate, 1)
    IN  /\ Len(filteredPatients) = Len(at)
        /\ \A k \in 1..Len(at) : filteredPatients[k] = patients[at[k]]
        /\ \A k \in 1..(Len(at) - 1) : at[k] < at[k + 1]

\* "Alice Smith" and "Bob Jones", text "smi" and Alice's day: only Alice
C9_Witness ==
    /\ patients = <<Patient(1), Patient(2)>>
    /\ searchTerm = <<"s","m","i">>
    /\ filterDate = Some(0)
    /\ filteredPatients = <<Patient(1)>>

(* C10: filter is idempotent: filtering the filtered result again with the *)
(* same text and date gives the filtered result.                           *)
C10_FilterIdempotent ==
    filter(filteredPatients, searchTerm, filterDate) = filteredPatients

\* both predicates are set and keep some records and drop others
C10_Witness ==
    /\ searchTerm # <<>>
    /\ filterDate # Null
    /\ Len(filteredPatients) > 0
    /\ Len(filteredPatients) < Len(patients)

----------------------------------------------------------------------------
(* C11 - C12: the text and date predicates *)

IsWhitespaceOnly(text) ==
    /\ text # <<>>
    /\ \A k \in 1..Len(text) : text[k] \in WhiteSpace

\* C11: filter text made only of whitespace matches every record of the
\* cache: with such a text in the search box the filtered list is the one
\* the empty text gives.
C11_WhitespaceMatchesAll ==
    IsWhitespaceOnly(searchTerm)
        => /\ \A k \in 1..Len(patients) : matchesSearch(patients[k], searchTerm)
           /\ filteredPatients = filter(patients, <<>>, filterDate)

\* C12: a record matches the filter date d exactly when the day that
\* formatDateTime shows for the record is d.
C12_DateFilterAgreesWithDisplay ==
    filterDate # Null
        => \A k \in 1..Len(patients) :
              matchesDate(patients[k], filterDate)
                  <=> formatDateTime(patients[k].dateTime).date = filterDate

----------------------------------------------------------------------------
(* C13 - C15: pages *)

RECURSIVE Concat(_)
\* the concatenation of a sequence of sequences
Concat(lists) ==
    IF lists = <<>> THEN <<>> ELSE Head(lists) \o Concat(Tail(lists))

RECURSIVE SumLen(_)
SumLen(lists) ==
    IF lists = <<>> THEN 0 ELSE Len(Head(lists)) + SumLen(Tail(lists))

\* the windows of the pages 1 .. count of the filtered result
PagesUpTo(count) == [p \in 1..count |-> paginate(filteredPatients, p)]

\* C13: the pages 1 .. pageCount partition the filtered result: their
\* lengths sum to its length, none is longer than the page size and their
\* concatenation in page order is the filtered result.  It is stated for the
\* count the code computes and for that count raised to at least one page.
C13_PagesPartition ==
    \A count \in {totalPages, Max(1, totalPages)} :
        /\ SumLen(PagesUpTo(count)) = Len(filteredPatients)
        /\ \A p \in 1..count : Len(PagesUpTo(count)[p]) <= patientsPerPage
        /\ Concat(PagesUpTo(count)) = filteredPatients

\* two pages, the second one shorter than the first, the second one shown
C13_Witness ==
    /\ Len(filteredPatients) > patientsPerPage
    /\ Len(filteredPatients) < 2 * patientsPerPage
    /\ currentPage = 2
    /\ paginatedPatients # <<>>

C15_PageChangeClearsSelection ==
    [][currentPage' # currentPage => selectedPatient' = Null]_vars

----------------------------------------------------------------------------
(* C16 - C17: the record cache *)

\* C16: a successful load replaces the cache with the fetched set; a failed
\* load leaves the cache unchanged, ends the loading state and leaves the
\* browser in a state that a successful load of an empty store does not
\* leave it in.
C16_LoadReplacesOrIsUnavailable ==
    [][ /\ \A patientList \in BrowsedStores :
              fetchPatientsOk(patientList) => patients' = patientList
        /\ fetchPatientsFailed
              => /\ patients' = patients
                 /\ ~loading'
                 /\ ~fetchPatientsOk(<<>>) ]_vars

\* C17: the record cache is changed only by a load: every step that changes
\* patients is the try branch of fetchPatients, whatever else the page does
\* (search text, filter date, page buttons, View and close, file selection,
\* Process Image, Try Again, arrival of a response, report generation).
C17_CacheChangedOnlyByLoad ==
    [][ patients' # patients
          => \E patientList \in VisitStores : fetchPatientsOk(patientList) ]_vars

\* the cache is loaded, a report of one of its records has been saved and
\* the details panel has been closed again
C17_Witness ==
    /\ patients # <<>>
    /\ saved # <<>>
    /\ selectedPatient = Null

----------------------------------------------------------------------------
(* C18: the intake form of the TopographerDashboard *)

\* C18: the patient form is submitted only in Resulted, with the form shown
\* and every demographic field present; the submission hands to the store
\* one record that carries the form's fields, the outcome just shown and
\* the current instant, and leaves the flow Idle with no preview, error or
\* form data.
C18_SubmitEmitsRecord ==
    [][ \A now \in Clock :
            handlePatientSubmit(now)
                => /\ Resulted /\ showPatientForm
                   /\ \A f \in FormFields : patientData[f] # Null
                   /\ Len(stored') = Len(stored) + 1
                   /\ LET record == stored'[Len(stored')]
                      IN  /\ \A f \in FormFields :
                                record[f] = Val(patientData[f])
                          /\ record.prediction = Val(prediction)
                          /\ record.dateTime = now
                   /\ Idle' /\ previewUrl' = Null /\ error' = Null
                   /\ ~showPatientForm'
                   /\ \A f \in FormFields : patientData'[f] = Null ]_vars

----------------------------------------------------------------------------
(* C19 - C20: the report *)

\* the text calls of a section of a document, its heading first
SectionTexts(doc, section) ==
    SelectSeq(doc.calls,
              LAMBDA c : c.section = section /\ c.call = "text")

\* the lines a section prints under its heading
SectionLines(doc, section) ==
    LET texts == SectionTexts(doc, section)
    IN  [k \in 1..(Len(texts) - 1) |-> texts[k + 1].text[1]]

HasSection(doc, section) ==
    \E k \in 1..Len(doc.calls) : doc.calls[k].section = section

\* the step saves a document
SaveStep == Len(saved') = Len(saved) + 1

LastSaved == saved'[Len(saved')]

\* C19: the report has the "new analysis" block exactly when a current
\* outcome is supplied, and the block shows the current outcome.  A call
\* that saves without waiting is judged by the outcome held when the button
\* is clicked; of a call that waited for its image it is only required that
\* the block is absent when no file has been selected since the page was
\* mounted, so that no outcome was held at any time.
C19_NewAnalysisIffCurrentOutcome ==
    [][ SaveStep =>
          /\ pending' = pending
                => /\ HasSection(LastSaved, "newAnalysisResults")
                        <=> prediction # Null
                   /\ prediction # Null
                        => SectionLines(LastSaved, "newAnalysisResults")
                              = split(Val(prediction), "\n")
          /\ (objectUrls = {} /\ prediction = Null)
                => ~HasSection(LastSaved, "newAnalysisResults") ]_vars

\* C20: when the image of a waiting call fails to load, the call ends: the
\* document is saved with the blocks drawn before the image and the
\* footers of its pages, and without the image block.
C20_ImageFailureStillSaves ==
    [][ \A i \in 1..Len(pending) :
            imageError(i)
                => /\ SaveStep
                   /\ LastSaved = savedDocument(pending[i].run,
                                                pending[i].patient)
                   /\ ~HasSection(LastSaved, "image") ]_vars

----------------------------------------------------------------------------
(* C21 - C22: the report of a sparse record, and the pages of a report *)

\* the labels under which the patient information block prints the fields
\* that a record can lack and still be selected
PrintedLabel == [age |-> "Age: ", gender |-> "Gender: "]

\* what the document shows after the given label of the patient information
PrintedAfter(doc, label) ==
    LET texts == SelectSeq(doc.calls,
                    LAMBDA c : /\ c.section = "patientInformation"
                               /\ c.call = "text"
                               /\ c.text[1] = label)
    IN  texts[1].text[2]

\* C21: for every field that the record lacks, the saved document shows the
\* literal "N/A" in the field's place.  It is stated of the reports of
\* records without image, which are saved by the click itself.
C21_AbsentFieldsShowNotAvailable ==
    [][ (SaveStep /\ pending' = pending)
          => \A f \in DOMAIN PrintedLabel :
                f \notin DOMAIN Val(selectedPatient)
                    => PrintedAfter(LastSaved, PrintedLabel[f]) = NotAvailable
      ]_vars


ContentSections ==
    {"patientInformation", "aiAnalysisResults", "medicalReport", "image",
     "newAnalysisResults"}

\* the drawing call lies on one of the document's pages, between the top
\* and the bottom edge of the sheet
WithinPage(doc, c) ==
    /\ c.page \in 1..doc.pages
    /\ c.y >= 0
    /\ c.y + c.h <= pageHeight

\* page i of the document has the header band and the footer "Page i of N"
HasHeaderAndFooter(doc, i) ==
    /\ \E k \in 1..Len(doc.calls) :
          /\ doc.calls[k].page = i
          /\ doc.calls[k].section = "header"
          /\ doc.calls[k].call = "rect"
    /\ \E k \in 1..Len(doc.calls) :
          /\ doc.calls[k].page = i
          /\ doc.calls[k].section = "footer"
          /\ doc.calls[k].text = <<"Page ", i, " of ", doc.pages>>

\* C22: in every saved document each drawing call of a content block lies
\* entirely on its page, and every page i of the N pages has the header and
\* the footer "Page i of N".
C22_BlocksWithinPages ==
    \A d \in 1..Len(saved) :
        /\ \A k \in 1..Len(saved[d].calls) :
              saved[d].calls[k].section \in ContentSections
                  => WithinPage(saved[d], saved[d].calls[k])
        /\ \A i \in 1..saved[d].pages : HasHeaderAndFooter(saved[d], i)

----------------------------------------------------------------------------
(* C23, C26: the current page and the selection *)

\* C23: the current page is valid in every reachable state of the record
\* browser: it is at least 1 and at most the page count, taken as 1 when
\* the filtered result is empty.
C23_CurrentPageValid ==
    /\ currentPage >= 1
    /\ currentPage <= Max(1, totalPages)

\* a search text leaves two pages of records and the last of them is shown,
\* so that the next-page button is disabled
C23_Witness ==
    /\ totalPages = 2
    /\ currentPage = 2
    /\ searchTerm # <<>>

\* C26: a selected record is one of the records shown on the current page
\* of the current filtered result.
C26_SelectionIsOnPage ==
    selectedPatient # Null
        => \E k \in 1..Len(paginatedPatients) :
              paginatedPatients[k] = Val(selectedPatient)

----------------------------------------------------------------------------
(* C24 - C25, C27: responses that arrive late *)

\* C24: an outcome that the flow comes to hold was computed from the file
\* that is selected when it is shown: the response of a call made for a file
\* that has since been replaced is not shown as the outcome of the
\* replacement.
C24_OutcomeIsOfSelectedFile ==
    [][ \A i \in 1..Len(requests), body \in Responses :
            (uploadResolved(i, body) /\ selectedFile' # Null)
                => Val(selectedFile') = requests[i].image ]_vars

\* C25: an outcome is present only with a selected file and its preview
\* locator; a session without a file is not Classifying; and a response or
\* failure that arrives when the session it was started in has been ended
\* by Try Again or by the selection of a record, so that no file is held,
\* puts no outcome and no error into the session in place.
C25_SessionNotOutlived ==
    [][ /\ prediction' # Null => (selectedFile' # Null /\ previewUrl' # Null)
        /\ selectedFile' = Null => ~isUploading'
        /\ ((ResolvedStep \/ RejectedStep) /\ selectedFile = Null)
              => (prediction' = Null /\ error' = Null) ]_vars

\* C27: every classification ends.  The flag isUploading is set only while a
\* call is pending, and with a Prediction Gateway that answers or fails the
\* flag set is followed by the flag cleared, so that Process Image does not
\* stay disabled.
C27_ClassifyingEnds ==
    /\ [](isUploading => requests # <<>>)
    /\ isUploading ~> ~isUploading

\* a classification has ended on the failure path
C27_Witness ==
    /\ mounted = Doctor
    /\ ~isUploading
    /\ requests = <<>>
    /\ error = Some(NotOkMsg)
    /\ selectedFile # Null

====
